---- MODULE Spec2Model ----
(***************************************************************************)
(* A model of video_translation_client: VideoTranslationClient polls the   *)
(* /status endpoint of a remote job with exponential backoff, an attempt   *)
(* cap, a wall-clock deadline and a status-change callback.                *)
(*                                                                         *)
(* Time is counted in ticks, TicksPerSec ticks to the second; all the      *)
(* durations of the configuration are whole ticks.  A delay computed by    *)
(* _calculate_delay is kept exactly, as a whole number of 1/DelayScale     *)
(* ticks, so that the jitter factor 1 + 0.2 * (time % 1) is not rounded.   *)
(***************************************************************************)
EXTENDS Integers, Sequences, FiniteSets, TLC

\* ---------------------------------------------------------------- bounds
TicksPerSec == 2
MaxInitialDelay == 1
MaxMaxDelay == 2
MaxBackoffFactor == 2
MaxAttempts == 2
MaxTimeout == 3
MaxLatency == 1
MaxDelayAttempt == 3

\* ------------------------------------------------------------- constants
\* "0-20% of the delay": the 0.2 of  delay *= 1 + 0.2 * (time % 1)
JitterPercent == 20

DelayScale == 100 * TicksPerSec

\* models.py: JobStatus
JobStatus == {"pending", "completed", "error"}

None == "None"

\* What the transport can hand to one GET <base>/status:
\*   refused     the connection cannot be established
\*   http_500    a response aiohttp rejects with a ClientResponseError: a
\*               non-success HTTP status (raise_for_status), or a body whose
\*               content type is not JSON (ContentTypeError, a subclass)
\*   bad_json    a 200 JSON response whose body does not parse
\*   no_result   a 200 JSON object without the key "result"
\*   running     a 200 JSON object whose "result" is no JobStatus value
\*   pending, completed, error    {"result": <that value>}
Replies ==
    {"refused", "http_500", "bad_json", "no_result", "running"} \cup JobStatus

\* What awaiting the callback task can end with: a normal return or an
\* exception of the callback's own.
CallbackResults ==
    {"ok", "RuntimeError", "ClientResponseError", "ClientConnectorError"}

VARIABLES
    config,            \* StatusPollingConfig of the clients
    on_status_change,  \* TRUE iff a callback is configured
    now,               \* the event loop's clock, in ticks
    pc,                \* where each poll_until_complete invocation stands
    timeout,           \* the local  timeout  (the deadline), in ticks
    attempt,           \* the local  attempt
    last_status,       \* the local  last_status
    status_response,   \* the local  status_response
    session,           \* the aiohttp.ClientSession of the invocation
    start_time,        \* _get_status_once: start_time of the fetch in flight
    due,               \* asyncio.sleep: the wake-up time, in 1/DelayScale ticks
    waits,             \* log: the _calculate_delay calls, in order
    replies,           \* log: what each finished fetch got from the transport
    notified,          \* log: the callback's invocations and how each ended
    outcome            \* how the invocation ended

vars == << config, on_status_change, now, pc, timeout, attempt, last_status,
           status_response, session, start_time, due, waits, replies,
           notified, outcome >>

\* ---------------------------------------------------------------- helpers
Min(a, b) == IF a <= b THEN a ELSE b

RECURSIVE Pow(_, _)
Pow(b, e) == IF e = 0 THEN 1 ELSE b * Pow(b, e - 1)

Last(s) == s[Len(s)]

\* models.py: StatusPollingConfig, durations in ticks
AllConfigs ==
    { [initial_delay |-> i, max_delay |-> m, backoff_factor |-> f,
       max_attempts |-> a, timeout |-> t, jitter |-> j] :
        i \in 0 .. MaxInitialDelay, m \in 0 .. MaxMaxDelay,
        f \in 1 .. MaxBackoffFactor, a \in 0 .. MaxAttempts,
        t \in 0 .. MaxTimeout, j \in BOOLEAN }

\* The configurations the clients poll with: every max_attempts, timeout and
\* jitter, and the ends of the ranges of the three parameters of the delay
\* (DelaySpec goes through all of AllConfigs).
Configs ==
    { cfg \in AllConfigs :
        /\ cfg.initial_delay \in {0, MaxInitialDelay}
        /\ cfg.max_delay \in {MaxInitialDelay, MaxMaxDelay}
        /\ cfg.backoff_factor \in {1, MaxBackoffFactor} }

NoResponse == [status |-> None, elapsed_time |-> 0]

Running == [kind |-> "running", exc |-> None, response |-> NoResponse, at |-> 0]

\* The invocations of poll_until_complete under way
Clients == DOMAIN pc

\* ------------------------------------------------- the exception classes
\* aiohttp: ClientConnectorError < ClientConnectionError < ClientError and
\* ClientResponseError < ClientError; the others (json.JSONDecodeError <
\* ValueError, KeyError, RuntimeError) are no ClientError.
IsClientError(e) == e \in {"ClientConnectorError", "ClientResponseError"}

\* Mutant: no exception counts as a connection error.
IsClientConnectionError_Never(e) == FALSE

IsClientConnectionError(e) == e = "ClientConnectorError"

\* ------------------------------------------------------ _get_status_once
\* The result of one fetch: a StatusResponse, or the exception raised.
Ok(status, elapsed) ==
    [raised |-> FALSE, exc |-> None,
     response |-> [status |-> status, elapsed_time |-> elapsed]]

Raised(e) == [raised |-> TRUE, exc |-> e, response |-> NoResponse]

_get_status_once(reply, elapsed) ==
    CASE reply = "refused"   -> Raised("ClientConnectorError")  \* session.get
      [] reply = "http_500"  -> Raised("ClientResponseError")   \* raise_for_status
      [] reply = "bad_json"  -> Raised("JSONDecodeError")       \* response.json
      [] reply = "no_result" -> Raised("KeyError")              \* data["result"]
      [] reply \in JobStatus -> Ok(reply, elapsed)
      [] OTHER               -> Raised("ValueError")            \* JobStatus(...)

\* ------------------------------------------------------ _calculate_delay
\* Mutant of the base value: the cap at max_delay is left out.
BaseDelay_NoCap(a) == config.initial_delay * Pow(config.backoff_factor, a)

\* min(initial_delay * backoff_factor ** attempt, max_delay), in ticks
BaseDelay(a) ==
    Min(config.initial_delay * Pow(config.backoff_factor, a), config.max_delay)

\* asyncio.get_event_loop().time() % 1, in ticks
ClockFraction == now % TicksPerSec

\* Mutant of the delay: the jitter is applied whatever config.jitter says.
_calculate_delay_AlwaysJitter(a) ==
    BaseDelay(a) * (DelayScale + JitterPercent * ClockFraction)

\* The delay in 1/DelayScale ticks:  base * (1 + 0.2 * (time % 1))  with
\* jitter, base without.
_calculate_delay(a) ==
    IF config.jitter
    THEN BaseDelay(a) * (DelayScale + JitterPercent * ClockFraction)
    ELSE BaseDelay(a) * DelayScale

\* ------------------------------------------------- _handle_status_change
ShouldNotify(last, status) == last # status /\ on_status_change

\* ---------------------------------------------------- poll_until_complete
\* Mutants of the termination test: one of the two terminal statuses is left out.
IsTerminal_OnlyError(status) == status = "error"

IsTerminal_OnlyCompleted(status) == status = "completed"

IsTerminal(status) == status \in {"completed", "error"}

\* Mutant of the loop test: the attempt cap is left out.
LoopGuard_NoCap(c) == now < timeout[c]

\* Mutant of the loop test: the attempt cap is reached one attempt early.
LoopGuard_OffByOne(c) == now < timeout[c] /\ attempt[c] + 1 < config.max_attempts

\* Mutant: the loop goes on while either budget lasts.
LoopGuard_EitherBudget(c) == now < timeout[c] \/ attempt[c] < config.max_attempts

LoopGuard(c) == now < timeout[c] /\ attempt[c] < config.max_attempts

\* Mutant of the exit: the session is left open.
Finish_LeakSession(c, kind, e, r) ==
    /\ pc' = [pc EXCEPT ![c] = "done"]
    /\ outcome' = [outcome EXCEPT ![c] =
                        [kind |-> kind, exc |-> e, response |-> r, at |-> now]]
    /\ UNCHANGED << session, attempt, due, waits >>

\* Leaving the  async with  block, by return or by an exception: the session
\* is closed on the way out.
Finish(c, kind, e, r) ==
    /\ pc' = [pc EXCEPT ![c] = "done"]
    /\ outcome' = [outcome EXCEPT ![c] =
                        [kind |-> kind, exc |-> e, response |-> r, at |-> now]]
    /\ session' = [session EXCEPT ![c] = "closed"]
    /\ UNCHANGED << attempt, due, waits >>

\* _wait_before_retry(a): compute the delay and start the sleep.
WaitBeforeRetry(c, a, label) ==
    /\ waits' = [waits EXCEPT ![c] =
                    Append(@, [attempt |-> a, delay |-> _calculate_delay(a),
                               at |-> now])]
    /\ due' = [due EXCEPT ![c] = now * DelayScale + _calculate_delay(a)]
    /\ pc' = [pc EXCEPT ![c] = label]
    /\ UNCHANGED << outcome, session >>

\* Mutant: last_status is kept in one place for all the clients.
AfterNotify_SharedLastStatus(c, r) ==
    /\ last_status' = [d \in Clients |-> r.status]
    /\ IF IsTerminal(r.status)
       THEN Finish(c, "returned", None, r)
       ELSE /\ attempt' = [attempt EXCEPT ![c] = @ + 1]
            /\ WaitBeforeRetry(c, attempt[c] + 1, "sleeping")

\* Lines 95-101: record the status, return a terminal response, else count
\* the attempt and wait.
AfterNotify(c, r) ==
    /\ last_status' = [last_status EXCEPT ![c] = r.status]
    /\ IF IsTerminal(r.status)
       THEN Finish(c, "returned", None, r)
       ELSE /\ attempt' = [attempt EXCEPT ![c] = @ + 1]
            /\ WaitBeforeRetry(c, attempt[c] + 1, "sleeping")

\* Mutant: the callback task is created and left running, not awaited.
Notify_NotAwaited(c, r) ==
    /\ notified' = [notified EXCEPT ![c] =
                        Append(@, [status |-> r.status, result |-> "running"])]
    /\ AfterNotify(c, r)

\* Line 69: the callback is started as a task with the response and the
\* invocation is suspended until the task ends.
Notify(c, r) ==
    /\ notified' = [notified EXCEPT ![c] =
                        Append(@, [status |-> r.status, result |-> "running"])]
    /\ pc' = [pc EXCEPT ![c] = "callback"]
    /\ UNCHANGED << last_status, outcome, session, attempt, due, waits >>

\* Mutant: the  except  block forgets the status observed so far.
Except_ForgetsLastStatus(c, e) ==
    /\ last_status' = [last_status EXCEPT ![c] = None]
    /\ IF IsClientError(e) /\ ~IsClientConnectionError(e)
       THEN /\ WaitBeforeRetry(c, attempt[c], "sleeping_except")
            /\ UNCHANGED attempt
       ELSE Finish(c, "raised", e, NoResponse)

\* Lines 103-108: an exception raised inside the  try  block.
Except(c, e) ==
    /\ UNCHANGED last_status
    /\ IF IsClientError(e) /\ ~IsClientConnectionError(e)
       THEN /\ WaitBeforeRetry(c, attempt[c], "sleeping_except")
            /\ UNCHANGED attempt
       ELSE Finish(c, "raised", e, NoResponse)

\* Lines 81-85: the deadline, the counters, the session.
Start(c) ==
    /\ pc[c] = "start"
    /\ timeout' = [timeout EXCEPT ![c] = now + config.timeout]
    /\ attempt' = [attempt EXCEPT ![c] = 0]
    /\ last_status' = [last_status EXCEPT ![c] = None]
    /\ session' = [session EXCEPT ![c] = "open"]
    /\ pc' = [pc EXCEPT ![c] = "guard"]
    /\ UNCHANGED << config, on_status_change, now, status_response, start_time,
                    due, waits, replies, notified, outcome >>

\* Lines 86-89 and 110: the loop test; the fetch is issued, or the loop and
\* the session end and TimeoutError is raised.
Guard(c) ==
    /\ pc[c] = "guard"
    /\ IF LoopGuard(c)
       THEN /\ pc' = [pc EXCEPT ![c] = "fetching"]
            /\ start_time' = [start_time EXCEPT ![c] = now]
            /\ UNCHANGED << outcome, session, attempt, due, waits >>
       ELSE /\ Finish(c, "raised", "TimeoutError", NoResponse)
            /\ UNCHANGED start_time
    /\ UNCHANGED << config, on_status_change, now, timeout, last_status,
                    status_response, replies, notified >>

\* Line 91 resumes with what the transport produced, then lines 93-108 up to
\* the next await.
FetchDone(c, reply) ==
    /\ pc[c] = "fetching"
    /\ replies' = [replies EXCEPT ![c] = Append(@, reply)]
    /\ LET res == _get_status_once(reply, now - start_time[c])
       IN  IF res.raised
           THEN /\ Except(c, res.exc)
                /\ UNCHANGED << status_response, notified >>
           ELSE /\ status_response' = [status_response EXCEPT ![c] = res.response]
                /\ IF ShouldNotify(last_status[c], res.response.status)
                   THEN Notify(c, res.response)
                   ELSE /\ UNCHANGED notified
                        /\ AfterNotify(c, res.response)
    /\ UNCHANGED << config, on_status_change, now, timeout, start_time >>

\* Line 69: the awaited callback task ends, normally or with an exception.
CallbackDone(c, result) ==
    /\ pc[c] = "callback"
    /\ notified' = [notified EXCEPT ![c][Len(notified[c])].result = result]
    /\ IF result = "ok"
       THEN AfterNotify(c, status_response[c])
       ELSE Except(c, result)
    /\ UNCHANGED << config, on_status_change, now, timeout, status_response,
                    start_time, replies >>

\* Mutant: a sleep is not resumed at its wake-up time, only later.
WakeUp_Oversleeps(c) ==
    /\ pc[c] \in {"sleeping", "sleeping_except"}
    /\ now * DelayScale > due[c]
    /\ attempt' = [attempt EXCEPT ![c] =
                      IF pc[c] = "sleeping_except" THEN @ + 1 ELSE @]
    /\ pc' = [pc EXCEPT ![c] = "guard"]
    /\ UNCHANGED << config, on_status_change, now, timeout, last_status,
                    status_response, session, start_time, due, waits, replies,
                    notified, outcome >>

\* Line 77: asyncio.sleep(delay) returns once the delay has passed; after the
\* wait of the  except  block, line 108 counts the attempt.
WakeUp(c) ==
    /\ pc[c] \in {"sleeping", "sleeping_except"}
    /\ now * DelayScale >= due[c]
    /\ attempt' = [attempt EXCEPT ![c] =
                      IF pc[c] = "sleeping_except" THEN @ + 1 ELSE @]
    /\ pc' = [pc EXCEPT ![c] = "guard"]
    /\ UNCHANGED << config, on_status_change, now, timeout, last_status,
                    status_response, session, start_time, due, waits, replies,
                    notified, outcome >>

\* The clock advances while some invocation is suspended in a fetch or in a
\* sleep: a sleep ends at the first tick at or after its wake-up time, a fetch
\* takes at most MaxLatency ticks.
Tick ==
    /\ \E c \in Clients : pc[c] \in {"fetching", "sleeping", "sleeping_except"}
    /\ \A c \in Clients :
          /\ pc[c] \in {"sleeping", "sleeping_except"} => now * DelayScale < due[c]
          /\ pc[c] = "fetching" => now - start_time[c] < MaxLatency
    /\ now' = now + 1
    /\ UNCHANGED << config, on_status_change, pc, timeout, attempt, last_status,
                    status_response, session, start_time, due, waits, replies,
                    notified, outcome >>

\* The state before poll_until_complete is called by the clients cs, at any
\* time of the clock's second.
InitWith(cs, cfgs) ==
    /\ config \in cfgs
    /\ on_status_change \in BOOLEAN
    /\ now \in 0 .. TicksPerSec - 1
    /\ pc = [c \in cs |-> "start"]
    /\ timeout = [c \in cs |-> 0]
    /\ attempt = [c \in cs |-> 0]
    /\ last_status = [c \in cs |-> None]
    /\ status_response = [c \in cs |-> NoResponse]
    /\ session = [c \in cs |-> "none"]
    /\ start_time = [c \in cs |-> 0]
    /\ due = [c \in cs |-> 0]
    /\ waits = [c \in cs |-> << >>]
    /\ replies = [c \in cs |-> << >>]
    /\ notified = [c \in cs |-> << >>]
    /\ outcome = [c \in cs |-> Running]

Init == InitWith({1}, Configs)

Next ==
    \/ \E c \in Clients : Start(c)
    \/ \E c \in Clients : Guard(c)
    \/ \E c \in Clients : \E reply \in Replies : FetchDone(c, reply)
    \/ \E c \in Clients : \E result \in CallbackResults : CallbackDone(c, result)
    \/ \E c \in Clients : WakeUp(c)
    \/ Tick

Spec == Init /\ [][Next]_vars

\* ------------------------------------------- _calculate_delay on its own
\* The configurations of the delay: max_attempts and timeout play no part.
DelayConfigs ==
    { cfg \in AllConfigs :
        cfg.max_attempts = MaxAttempts /\ cfg.timeout = MaxTimeout }

DelayInit ==
    /\ InitWith({1}, DelayConfigs)
    /\ on_status_change = FALSE

\* One call of _calculate_delay(a); the log keeps the last two calls.
CalculateDelay(c, a) ==
    /\ waits' = [waits EXCEPT ![c] =
                    (IF @ = << >> THEN << >> ELSE << Last(@) >>)
                        \o << [attempt |-> a, delay |-> _calculate_delay(a),
                               at |-> now] >>]
    /\ UNCHANGED << config, on_status_change, now, pc, timeout, attempt,
                    last_status, status_response, session, start_time, due,
                    replies, notified, outcome >>

\* The clock's fraction of a second moves on between two calls.
Elapse ==
    /\ now' = (now + 1) % TicksPerSec
    /\ UNCHANGED << config, on_status_change, pc, timeout, attempt, last_status,
                    status_response, session, start_time, due, waits, replies,
                    notified, outcome >>

DelayNext ==
    \/ \E c \in Clients : \E a \in 0 .. MaxDelayAttempt : CalculateDelay(c, a)
    \/ Elapse

DelaySpec == DelayInit /\ [][DelayNext]_vars

\* ------------------------------------------------ several clients at once
\* test_multiple_clients: client instances built from one configuration, with
\* no callback, poll the same endpoint concurrently, each in its own task.
MultiClients == {1, 2}

MultiConfigs ==
    { cfg \in Configs :
        /\ cfg.initial_delay = MaxInitialDelay
        /\ cfg.max_delay = MaxMaxDelay
        /\ cfg.backoff_factor = MaxBackoffFactor
        /\ cfg.max_attempts = MaxAttempts
        /\ cfg.timeout = MaxTimeout }

MultiInit == InitWith(MultiClients, MultiConfigs) /\ ~on_status_change

\* translation_server.py, handle_status: the server of the test answers every
\* request, with {"result": "error"}, {"result": "completed"} or
\* {"result": "pending"}.
ServerReplies == JobStatus

MultiNext ==
    \/ \E c \in Clients : Start(c)
    \/ \E c \in Clients : Guard(c)
    \/ \E c \in Clients : \E reply \in ServerReplies : FetchDone(c, reply)
    \/ \E c \in Clients : WakeUp(c)
    \/ Tick

MultiSpec == MultiInit /\ [][MultiNext]_vars

\* The event loop runs whatever is ready: a fetch, a callback or a sleep that
\* can end does end, and the clock goes on while the invocation is suspended.
FairSpec == Spec /\ WF_vars(Next)

\* ================================================================ claims
\* The number of fetches the invocation c has issued
Fetches(c) == Len(replies[c]) + (IF pc[c] = "fetching" THEN 1 ELSE 0)

\* The statuses the callback of c was invoked with, in order
NotifiedStatuses(c) == [i \in 1 .. Len(notified[c]) |-> notified[c][i].status]

\* No invocation of the callback of c has raised
CallbacksOk(c) ==
    \A i \in 1 .. Len(notified[c]) : notified[c][i].result \in {"ok", "running"}

\* The first n fetches of c were answered pending and the next one completed
PendingThenCompleted(c, n) ==
    /\ Len(replies[c]) >= n + 1
    /\ \A i \in 1 .. n : replies[c][i] = "pending"
    /\ replies[c][n + 1] = "completed"

AllPending(c) == \A i \in 1 .. Len(replies[c]) : replies[c][i] = "pending"

Returned(c, status) ==
    /\ pc[c] = "done"
    /\ outcome[c].kind = "returned"
    /\ outcome[c].exc = None
    /\ outcome[c].response = status_response[c]
    /\ outcome[c].response.status = status

RaisedError(c, e) ==
    /\ pc[c] = "done"
    /\ outcome[c].kind = "raised"
    /\ outcome[c].exc = e
    /\ outcome[c].response = NoResponse

C2_ErrorIsReturned ==
    \A c \in Clients : \A i \in 1 .. Len(replies[c]) :
        (replies[c][i] = "error" /\ CallbacksOk(c)) =>
            /\ i = Len(replies[c])
            /\ Fetches(c) = i
            /\ pc[c] \in {"callback", "done"}
            /\ pc[c] = "done" => Returned(c, "error")
            /\ Len(waits[c]) = i - 1

C2_Witness ==
    \E c \in Clients :
        /\ replies[c] = << "error" >>
        /\ Returned(c, "error")
        /\ waits[c] = << >>

\* C3 as stated: when every fetch was answered pending and the invocation has
\* ended with TimeoutError, the error was raised with the deadline passed,
\* whatever max_attempts is.
C3_TimeoutOnlyAfterDeadline ==
    \A c \in Clients :
        (Len(replies[c]) > 0 /\ AllPending(c) /\ CallbacksOk(c) /\ pc[c] = "done") =>
            /\ RaisedError(c, "TimeoutError")
            /\ outcome[c].at >= timeout[c]

\* C3 amended: when every fetch is answered pending (and no callback raises),
\* the invocation ends with TimeoutError for every max_attempts, raised with
\* the deadline passed or the attempt counter at max_attempts, after at most
\* max_attempts fetches: with a small max_attempts, before the deadline.
C3_TimeoutWhenBudgetExhausted ==
    \A c \in Clients :
        (AllPending(c) /\ CallbacksOk(c) /\ pc[c] = "done") =>
            /\ RaisedError(c, "TimeoutError")
            /\ outcome[c].at >= timeout[c] \/ attempt[c] >= config.max_attempts
            /\ attempt[c] = Len(replies[c])
            /\ Len(replies[c]) <= config.max_attempts

C3_Witness ==
    \E c \in Clients :
        /\ Len(replies[c]) > 0 /\ AllPending(c) /\ CallbacksOk(c)
        /\ RaisedError(c, "TimeoutError")
        /\ outcome[c].at < timeout[c]
        /\ attempt[c] = config.max_attempts

\* C4: a fetch that fails with a connection error is the last step of the
\* invocation, whatever the attempt counter: the connection error is raised
\* to the caller, no wait follows the failing fetch (each earlier fetch was
\* followed by one wait, this one by none), and no other fetch.
C4_ConnectionErrorAborts ==
    \A c \in Clients : \A i \in 1 .. Len(replies[c]) :
        replies[c][i] = "refused" =>
            /\ i = Len(replies[c])
            /\ Fetches(c) = i
            /\ RaisedError(c, "ClientConnectorError")
            /\ Len(waits[c]) = i - 1
            /\ session[c] = "closed"

C4_Witness ==
    \E c \in Clients :
        /\ Len(replies[c]) > 1
        /\ Last(replies[c]) = "refused"
        /\ attempt[c] > 0
        /\ RaisedError(c, "ClientConnectorError")

\* The replies of the Retryable-Protocol class: a non-success HTTP status, a
\* malformed or unparseable body, a status value that is no JobStatus
RetryableProtocol == {"http_500", "bad_json", "no_result", "running"}

\* C5: a fetch that fails with a Retryable-Protocol condition does not end the
\* invocation with an error of its own: the invocation waits and goes back to
\* the loop test, so that it can end after that fetch only with the
\* TimeoutError of an exhausted budget.
C5_RetryableIsAbsorbed ==
    \A c \in Clients :
        (Len(replies[c]) > 0 /\ Last(replies[c]) \in RetryableProtocol) =>
            /\ pc[c] \in {"sleeping", "sleeping_except", "guard", "fetching", "done"}
            /\ pc[c] = "done" => RaisedError(c, "TimeoutError")

RECURSIVE StatusesOf(_)
StatusesOf(rs) ==
    IF rs = << >> THEN << >>
    ELSE IF rs[1] \in JobStatus THEN << rs[1] >> \o StatusesOf(Tail(rs))
    ELSE StatusesOf(Tail(rs))

\* A sequence with its consecutive duplicates removed
RECURSIVE Dedup(_)
Dedup(seq) ==
    IF Len(seq) <= 1 THEN seq
    ELSE IF seq[1] = seq[2] THEN Dedup(Tail(seq))
    ELSE << seq[1] >> \o Dedup(Tail(seq))

\* C7: with a callback configured, the statuses the callback has been invoked
\* with are the successfully fetched statuses with consecutive duplicates
\* removed, in the same order.
C7_CallbackFollowsTransitions ==
    \A c \in Clients :
        on_status_change => NotifiedStatuses(c) = Dedup(StatusesOf(replies[c]))

\* C8: an invocation of the callback that raised, whatever the exception, has
\* ended the invocation with that exception raised to the caller.
C8_CallbackErrorPropagates ==
    \A c \in Clients : \A i \in 1 .. Len(notified[c]) :
        notified[c][i].result \notin {"ok", "running"} =>
            /\ i = Len(notified[c])
            /\ RaisedError(c, notified[c][i].result)

\* The base value the specification gives for attempt a, in ticks
SpecBase(a) ==
    LET grown == config.initial_delay * Pow(config.backoff_factor, a)
    IN  IF grown < config.max_delay THEN grown ELSE config.max_delay

\* The calls of _calculate_delay on record
DelayCalls == UNION { { waits[c][i] : i \in 1 .. Len(waits[c]) } : c \in Clients }

\* C9: for every configuration with initial_delay >= 0, max_delay >=
\* initial_delay and backoff_factor >= 1 and every attempt >= 0, the computed
\* delay is not negative and at most 1.2 * max_delay; with jitter it is at
\* least the base value min(initial_delay * backoff_factor^attempt, max_delay)
\* and less than 1.2 times it, without jitter it is the base value.
C9_DelayWithinBounds ==
    \A w \in DelayCalls :
        (/\ config.initial_delay >= 0
         /\ config.max_delay >= config.initial_delay
         /\ config.backoff_factor >= 1
         /\ w.attempt >= 0) =>
            /\ w.delay >= 0
            /\ 10 * w.delay <= 12 * config.max_delay * DelayScale
            /\ config.jitter =>
                  /\ w.delay >= SpecBase(w.attempt) * DelayScale
                  /\ SpecBase(w.attempt) > 0 =>
                        10 * w.delay < 12 * SpecBase(w.attempt) * DelayScale
            /\ ~config.jitter => w.delay = SpecBase(w.attempt) * DelayScale

C9_Witness ==
    \E w \in DelayCalls :
        /\ config.jitter
        /\ config.max_delay >= config.initial_delay
        /\ w.attempt > 0
        /\ SpecBase(w.attempt) = config.max_delay
        /\ w.delay > config.max_delay * DelayScale

\* C10 as stated: for every configuration, with or without jitter, and all
\* attempts a < b whose delay has not yet reached max_delay, the delay
\* computed for a is at most the delay computed for b.
C10_MonotoneUntilSaturation ==
    \A w1, w2 \in DelayCalls :
        (/\ w1.attempt < w2.attempt
         /\ config.initial_delay * Pow(config.backoff_factor, w2.attempt)
                < config.max_delay) =>
            w1.delay <= w2.delay

\* C10 amended: for all attempts a < b the delay computed for a is at most the
\* delay computed for b when jitter is disabled, and, with jitter enabled,
\* when backoff_factor >= 2 and the base value of b is not capped by
\* max_delay; with jitter and a backoff_factor near 1 the delay can decrease.
C10_MonotoneWithoutJitter ==
    \A w1, w2 \in DelayCalls :
        (/\ w1.attempt < w2.attempt
         /\ \/ ~config.jitter
            \/ /\ config.backoff_factor >= 2
               /\ config.initial_delay * Pow(config.backoff_factor, w2.attempt)
                      <= config.max_delay) =>
            w1.delay <= w2.delay

C10_Witness ==
    \E w1, w2 \in DelayCalls :
        /\ w1.attempt < w2.attempt
        /\ config.jitter
        /\ config.backoff_factor >= 2
        /\ config.initial_delay > 0
        /\ config.initial_delay * Pow(config.backoff_factor, w2.attempt)
               <= config.max_delay
        /\ w1.at % TicksPerSec > w2.at % TicksPerSec
        /\ w1.delay > SpecBase(w1.attempt) * DelayScale
        /\ w1.delay <= w2.delay

\* C11: an invocation opens one session, when it starts, and closes it when
\* it ends and not before: the session is open exactly while the invocation is
\* under way and closed in every terminal outcome, a closed session is never
\* opened again, and once the invocation has ended every fetch it issued has
\* been answered (none is in flight).
C11_SessionState ==
    \A c \in Clients :
        /\ pc[c] = "start" <=> session[c] = "none"
        /\ pc[c] = "done" <=> session[c] = "closed"
        /\ pc[c] \notin {"start", "done"} <=> session[c] = "open"
        /\ pc[c] = "done" =>
              /\ outcome[c].kind \in {"returned", "raised"}
              /\ Fetches(c) = Len(replies[c])

C11_SessionSteps ==
    \A c \in Clients :
        session'[c] # session[c] =>
            \/ session[c] = "none" /\ session'[c] = "open" /\ pc[c] = "start"
            \/ session[c] = "open" /\ session'[c] = "closed" /\ pc'[c] = "done"

C11_SessionReleased == [] C11_SessionState /\ [][C11_SessionSteps]_vars

C11_Witness ==
    \E c \in Clients :
        /\ RaisedError(c, "ValueError")
        /\ Len(replies[c]) > 1
        /\ session[c] = "closed"

\* What the invocation c owns
Locals(c) ==
    << pc[c], timeout[c], attempt[c], last_status[c], status_response[c],
       session[c], start_time[c], due[c], waits[c], replies[c], notified[c],
       outcome[c] >>

\* A step changes the attempt counter, the deadline, the last status and the
\* rest of the state of one client at most, the one whose step it is.
C12_OwnStateOnly ==
    \A c, d \in Clients :
        (c # d /\ Locals(c)' # Locals(c)) =>
            /\ pc'[c] # pc[c]
            /\ Locals(d)' = Locals(d)

\* An ended client's outcome follows from the replies it got itself, and
\* when it was never answered  error  it is a completed response or an
\* exception.
C12_OutcomeFromOwnReplies ==
    \A c \in Clients :
        pc[c] = "done" =>
            /\ outcome[c].kind = "returned" =>
                  /\ Len(replies[c]) > 0
                  /\ outcome[c].response.status = Last(replies[c])
            /\ (\A i \in 1 .. Len(replies[c]) : replies[c][i] # "error") =>
                  \/ outcome[c].kind = "raised"
                  \/ outcome[c].kind = "returned"
                        /\ outcome[c].response.status = "completed"

\* C12: with several clients polling the same endpoint concurrently, under
\* every interleaving of their steps, each client's attempt counter, deadline
\* and last status (and the rest of its state) change only in that client's
\* own steps, its outcome follows from the replies it got itself, and with a
\* remote that never answers  error  every client ends with the status
\* completed or with an exception.
C12_ClientsIndependent ==
    [][C12_OwnStateOnly]_vars /\ [] C12_OutcomeFromOwnReplies

C12_Witness ==
    /\ Cardinality(Clients) > 1
    /\ \E c, d \in Clients :
          /\ c # d
          /\ Returned(c, "completed") /\ replies[c] = << "pending", "completed" >>
          /\ RaisedError(d, "TimeoutError") /\ Len(replies[d]) > 1
          /\ last_status[c] = "completed" /\ last_status[d] = "pending"

\* A fetch is issued from the loop test only, at a test that found the
\* deadline ahead and the attempt counter below max_attempts.
C13_FetchOnlyWithinBudget ==
    \A c \in Clients :
        (pc[c] # "fetching" /\ pc'[c] = "fetching") =>
            /\ pc[c] = "guard"
            /\ now < timeout[c]
            /\ attempt[c] < config.max_attempts
            /\ start_time'[c] = now

\* A loop test that finds the deadline reached or the attempts used up ends
\* the invocation with TimeoutError; an ended invocation fetches no more.
C13_ExhaustedBudgetEnds ==
    \A c \in Clients :
        /\ ( /\ pc[c] = "guard"
             /\ now >= timeout[c] \/ attempt[c] >= config.max_attempts
             /\ pc'[c] # pc[c] ) =>
                /\ RaisedError(c, "TimeoutError")'
                /\ replies'[c] = replies[c]
        /\ pc[c] = "done" => (pc'[c] = "done" /\ replies'[c] = replies[c])

C13_AtMostMaxAttemptsFetches ==
    \A c \in Clients : Fetches(c) <= config.max_attempts

\* C13: every fetch of an invocation is issued by a loop test at which the
\* current time is before the deadline and the attempt counter is below
\* max_attempts; a loop test that finds the time at or past the deadline or
\* the counter at or above max_attempts ends the invocation with
\* TimeoutError and no fetch follows; so an invocation issues at most
\* max_attempts fetches.
C13_FetchesWithinBudget ==
    /\ [][C13_FetchOnlyWithinBudget /\ C13_ExhaustedBudgetEnds]_vars
    /\ [] C13_AtMostMaxAttemptsFetches

C13_Witness ==
    \E c \in Clients :
        /\ config.max_attempts = MaxAttempts
        /\ replies[c] = << "http_500", "pending" >>
        /\ Fetches(c) = config.max_attempts
        /\ attempt[c] = config.max_attempts
        /\ RaisedError(c, "TimeoutError")
        /\ now < timeout[c]

\* C14: the callback is invoked only on a change of the status, and the
\* status it was invoked with is the last observed one afterwards: no two
\* consecutive invocations of the callback of one poll_until_complete carry
\* the same status, and the callback is invoked at most twice.
C14_CallbackOnlyOnChange ==
    \A c \in Clients :
        /\ Len(notified[c]) <= 2
        /\ \A i \in 1 .. Len(notified[c]) - 1 :
              notified[c][i].status # notified[c][i + 1].status
        /\ ( /\ Len(notified[c]) > 0
             /\ pc[c] \in {"guard", "fetching", "sleeping", "sleeping_except"} ) =>
                last_status[c] = Last(notified[c]).status

\* C15: the callback invocation triggered by a fetched response has ended
\* before the termination check on that response, before its return, before
\* the backoff wait and before any later fetch: a callback of an invocation
\* runs only while the invocation is suspended on it, with the response just
\* fetched, neither returned nor recorded as last status, and never while a
\* fetch or a backoff wait of that invocation is in progress.
C15_CallbackEndsBeforeNextDecision ==
    \A c \in Clients :
        /\ \A i \in 1 .. Len(notified[c]) :
              notified[c][i].result = "running" =>
                  i = Len(notified[c]) /\ pc[c] = "callback"
        /\ pc[c] = "callback" =>
              /\ Len(notified[c]) > 0
              /\ Last(notified[c]).result = "running"
              /\ Last(notified[c]).status = status_response[c].status
              /\ status_response[c].status = Last(replies[c])
              /\ last_status[c] # status_response[c].status
              /\ outcome[c] = Running
              /\ session[c] = "open"
              /\ \A k \in 1 .. Len(waits[c]) : waits[c][k].at * DelayScale
                                                + waits[c][k].delay <= now * DelayScale

C15_Witness ==
    \E c \in Clients :
        /\ pc[c] = "callback"
        /\ replies[c] = << "pending", "completed" >>
        /\ notified[c] = << [status |-> "pending", result |-> "ok"],
                            [status |-> "completed", result |-> "running"] >>
        /\ Len(waits[c]) = 1
        /\ outcome[c] = Running

\* C16: after a pending response and after a retryable protocol failure
\* alike, the attempt counter is incremented first and the backoff delay is
\* computed from the incremented counter: the wait that follows the k-th
\* non-terminal fetch outcome of an invocation is computed with attempt = k,
\* and the counter already stands at k while the invocation sleeps.
C16_WaitUsesIncrementedAttempt ==
    \A c \in Clients :
        /\ \A k \in 1 .. Len(waits[c]) : waits[c][k].attempt = k
        /\ pc[c] \in {"sleeping", "sleeping_except"} =>
              attempt[c] = Len(waits[c])

\* The step is the end of a fetch of c
FetchEnds(c) == replies'[c] # replies[c]

\* C17: a fetch that fails with a retryable protocol failure leaves the last
\* observed status as it was and invokes no callback, so that the status of
\* a later fetch, as of any fetch, is notified if and only if a callback is
\* configured and the status differs from the last status observed before
\* the failure, or none was observed.
C17_FailureStep ==
    \A c \in Clients :
        FetchEnds(c) =>
            /\ replies'[c] = Append(replies[c], Last(replies'[c]))
            /\ Last(replies'[c]) \in RetryableProtocol =>
                  /\ last_status'[c] = last_status[c]
                  /\ notified'[c] = notified[c]
                  /\ pc'[c] \in {"sleeping_except", "done"}
            /\ Last(replies'[c]) \in JobStatus =>
                  /\ (notified'[c] # notified[c]) <=>
                        (on_status_change /\ Last(replies'[c]) # last_status[c])
                  /\ notified'[c] # notified[c] =>
                        /\ notified'[c] = Append(notified[c], Last(notified'[c]))
                        /\ Last(notified'[c]).status = Last(replies'[c])

C18_ReturnsFirstTerminal ==
    \A c \in Clients :
        /\ outcome[c].kind = "returned" =>
              /\ pc[c] = "done"
              /\ outcome[c].response.status \in {"completed", "error"}
              /\ outcome[c].response = status_response[c]
              /\ outcome[c].response.status = Last(replies[c])
        /\ \A i \in 1 .. Len(replies[c]) - 1 :
              replies[c][i] \notin {"completed", "error"}
        /\ (Len(replies[c]) > 0 /\ Last(replies[c]) \in {"completed", "error"}) =>
              pc[c] \in {"callback", "done"}

C19_Ends == <>(\A c \in Clients : pc[c] = "done")

\* An invocation has an outcome exactly when it has ended, and an ended
\* invocation takes no further step.
C19_OneOutcome ==
    \A c \in Clients :
        /\ (pc[c] = "done") <=> (outcome[c].kind \in {"returned", "raised"})
        /\ (pc[c] # "done") <=> (outcome[c] = Running)
        /\ outcome[c].kind = "returned" <=> outcome[c].response # NoResponse
        /\ outcome[c].kind = "raised" <=> outcome[c].exc # None

C19_EndIsFinal ==
    \A c \in Clients : pc[c] = "done" => Locals(c)' = Locals(c)

\* C19: when every fetch, callback and backoff wait that can end does end,
\* every invocation of poll_until_complete eventually ends, whatever the
\* remote answers, with exactly one outcome, a returned response or a raised
\* exception, and takes no step after that.
C19_EventuallyEnds ==
    /\ C19_Ends
    /\ [] C19_OneOutcome
    /\ [][C19_EndIsFinal]_vars

C19_Witness ==
    \E c \in Clients :
        /\ config.max_attempts = MaxAttempts
        /\ replies[c] = << "pending", "http_500" >>
        /\ RaisedError(c, "TimeoutError")
        /\ attempt[c] = config.max_attempts
        /\ session[c] = "closed"

====
